---- MODULE Spec2Model ----
(***************************************************************************)
(* Embedding service (embedding-service/app.py): the lazily loaded global  *)
(* model, the four request handlers and the process entry point.           *)
(*                                                                         *)
(* Thread 0 is the main thread of the entry point; threads 1..NThreads are *)
(* the request threads of the server (app.run(threaded=True), or the       *)
(* server that imported the module).  load_model() is modelled at the      *)
(* granularity of its reads and writes of the global `model`.              *)
(***************************************************************************)
EXTENDS Integers, Sequences, FiniteSets, TLC

\* ----------------------------------------------------------------- bounds
NThreads == 2           \* request threads of the concurrent specification
MaxTexts == 2           \* longest 'texts' array drawn as an input
MaxBatch == 2           \* largest explicit 'batch_size' drawn as an input

\* ------------------------------------------------------ program constants
DefaultBatchSize == 32  \* data.get('batch_size', 32)
Dimension == 2          \* length of every vector the stand-in model produces

None == 0               \* the value None of the global `model`

Texts == {"a", "b"}     \* the non-empty strings drawn as inputs

\* ------------------------------------------------------------ JSON values
\* A parsed JSON value as Python sees it: kind k, string s, number n, array l
\* (of strings); a nested object is kept by its number of keys n.
JNull == [k |-> "null", s |-> "", n |-> 0, l |-> <<>>]
JStr(x) == [k |-> "str", s |-> x, n |-> 0, l |-> <<>>]
JNum(i) == [k |-> "num", s |-> "", n |-> i, l |-> <<>>]
JList(q) == [k |-> "list", s |-> "", n |-> 0, l |-> q]
JDict(i) == [k |-> "dict", s |-> "", n |-> i, l |-> <<>>]

\* Python truthiness (`not v` is ~Truthy(v)).
Truthy(v) ==
    CASE v.k = "null" -> FALSE
      [] v.k = "str" -> v.s # ""
      [] v.k = "num" -> v.n # 0
      [] v.k = "list" -> v.l # <<>>
      [] v.k = "dict" -> v.n # 0

IsList(v) == v.k = "list"

\* A request body: "nojson" (not JSON at all), "null" (JSON null, or any other
\* falsy non-object), "array" (a non-empty JSON array), "obj" (a JSON object,
\* o its fields).
NoFields == [f \in {} |-> JNull]
Body(kind, fields) == [k |-> kind, o |-> fields]
Obj(fields) == Body("obj", fields)

\* `not data` on the value get_json() returned.
TruthyBody(data) ==
    CASE data.k = "obj" -> DOMAIN data.o # {}
      [] data.k = "array" -> TRUE
      [] OTHER -> FALSE

\* dict.get(key, default)
Get(o, key, default) == IF key \in DOMAIN o THEN o[key] ELSE default

\* request.get_json(): the parsed body; for a body that is not JSON it raises
\* (BadRequest / UnsupportedMediaType) or, in older Flask, returns None.
GetJsonOutcomes(body) ==
    IF body.k = "nojson"
    THEN {[exc |-> "BadRequest", data |-> Body("null", NoFields)],
          [exc |-> "", data |-> Body("null", NoFields)]}
    ELSE {[exc |-> "", data |-> body]}

\* ------------------------------------------------------------ validation
Pass == [out |-> "pass", msg |-> ""]
Reject(msg) == [out |-> "reject", msg |-> msg]
Raise(e) == [out |-> "raise", msg |-> e]

\* lines 55-60
EmbedValidate(data) ==
    IF ~TruthyBody(data) THEN Reject("Request body must be JSON")
    ELSE IF data.k # "obj" THEN Raise("AttributeError")
    ELSE IF ~Truthy(Get(data.o, "text", JStr(""))) THEN Reject("Field 'text' is required")
    ELSE Pass

\* the isinstance check left out
BatchValidateNoIsinstance(data) ==
    IF ~TruthyBody(data) THEN Reject("Request body must be JSON")
    ELSE IF data.k # "obj" THEN Raise("AttributeError")
    ELSE IF ~Truthy(Get(data.o, "texts", JList(<<>>)))
         THEN Reject("Field 'texts' must be a non-empty array")
    ELSE Pass

\* lines 80-85
BatchValidate(data) ==
    IF ~TruthyBody(data) THEN Reject("Request body must be JSON")
    ELSE IF data.k # "obj" THEN Raise("AttributeError")
    ELSE IF \/ ~Truthy(Get(data.o, "texts", JList(<<>>)))
            \/ ~IsList(Get(data.o, "texts", JList(<<>>)))
         THEN Reject("Field 'texts' must be a non-empty array")
    ELSE Pass

\* lines 108-115
SimilarityValidate(data) ==
    IF ~TruthyBody(data) THEN Reject("Request body must be JSON")
    ELSE IF data.k # "obj" THEN Raise("AttributeError")
    ELSE IF \/ ~Truthy(Get(data.o, "text1", JStr("")))
            \/ ~Truthy(Get(data.o, "text2", JStr("")))
         THEN Reject("Fields 'text1' and 'text2' are required")
    ELSE Pass

Validate(ep, data) ==
    CASE ep = "embed" -> EmbedValidate(data)
      [] ep = "embed_batch" -> BatchValidate(data)
      [] ep = "similarity" -> SimilarityValidate(data)

\* ------------------------------------------------------------- the model
\* The stand-in for SentenceTransformer.encode on one string: a fixed vector
\* of length Dimension per text.
Vec(text) ==
    CASE text = "a" -> <<1, 0>>
      [] text = "b" -> <<0, 1>>
      [] OTHER -> <<1, 1>>

\* encode(list, batch_size=bs): pass by pass over chunks of bs inputs, the
\* passes' outputs concatenated in input order.
RECURSIVE EncodeChunks(_, _)
EncodeChunks(texts, bs) ==
    IF texts = <<>> THEN <<>>
    ELSE LET n == IF Len(texts) < bs THEN Len(texts) ELSE bs
         IN [i \in 1..n |-> Vec(texts[i])]
                \o EncodeChunks(SubSeq(texts, n + 1, Len(texts)), bs)

\* The outcomes of m.encode(texts, batch_size=bs): it raises, or returns one
\* vector per input; a batch size that is no positive integer only raises.
EncodeOutcomes(texts, bs) ==
    {[exc |-> "EncodeError", vecs |-> <<>>]}
        \cup (IF bs.k = "num" /\ bs.n >= 1
              THEN {[exc |-> "", vecs |-> EncodeChunks(texts, bs.n)]}
              ELSE {})

\* The outcomes of get_sentence_embedding_dimension().
DimensionOutcomes == {[exc |-> "", dim |-> Dimension], [exc |-> "DimensionError", dim |-> 0]}

Dot(u, v) == u[1] * v[1] + u[2] * v[2]
\* np.linalg.norm, on the integer grid (the largest n with n*n <= |v|^2)
Norm(v) == CHOOSE n \in 0..Dot(v, v) : n * n <= Dot(v, v) /\ (n + 1) * (n + 1) > Dot(v, v)
\* lines 121-123, scaled by 100
Cosine(u, v) == (100 * Dot(u, v)) \div (Norm(u) * Norm(v))

\* -------------------------------------------------------------- responses
NoResp ==
    [status |-> 0, error |-> "", state |-> "", embedding |-> <<>>, embeddings |-> <<>>,
     count |-> 0, dimension |-> 0, similarity |-> 0, escaped |-> FALSE]

\* jsonify({"error": msg}), 400
BadRequest(msg) == [NoResp EXCEPT !.status = 400, !.error = msg]

\* lines 41-45
HealthResponse(dim) == [NoResp EXCEPT !.status = 200, !.state = "healthy", !.dimension = dim]

\* lines 65-69
EmbedResponse(emb) ==
    [NoResp EXCEPT !.status = 200, !.embedding = emb[1], !.dimension = Len(emb[1])]

\* the last vector of the batch dropped from the response
BatchResponseDropLast(emb) ==
    [NoResp EXCEPT !.status = 200,
                   !.embeddings = SubSeq(emb, 1, Len(emb) - 1),
                   !.count = Len(emb) - 1,
                   !.dimension = IF Len(emb) > 0 THEN Len(emb[1]) ELSE 0]

\* lines 92-97
BatchResponse(emb) ==
    [NoResp EXCEPT !.status = 200,
                   !.embeddings = emb,
                   !.count = Len(emb),
                   !.dimension = IF Len(emb) > 0 THEN Len(emb[1]) ELSE 0]

\* lines 121-130
SimilarityResponse(emb) ==
    [NoResp EXCEPT !.status = 200, !.similarity = Cosine(emb[1], emb[2])]

\* health without its try/except: the exception leaves the handler and Flask's
\* errorhandler(500) answers
ExceptClauseHealthUnguarded(ep, e) ==
    IF ep = "health"
    THEN [NoResp EXCEPT !.status = 500, !.error = "Internal server error", !.escaped = TRUE]
    ELSE [NoResp EXCEPT !.status = 500, !.error = e]

\* the except clauses: lines 46-48, 71-73, 99-101, 132-134
ExceptClause(ep, e) ==
    IF ep = "health"
    THEN [NoResp EXCEPT !.status = 500, !.state = "unhealthy", !.error = e]
    ELSE [NoResp EXCEPT !.status = 500, !.error = e]

\* --------------------------------------------------------------- requests
Request(ep, body) == [ep |-> ep, body |-> body]
NoReq == Request("", Body("null", NoFields))
MainReq == Request("main", Body("null", NoFields))

RECURSIVE SeqsUpTo(_, _)
SeqsUpTo(S, n) ==
    IF n = 0 THEN {<<>>}
    ELSE LET shorter == SeqsUpTo(S, n - 1)
         IN shorter \cup {Append(q, x) : q \in shorter, x \in S}

CommonBodies ==
    {Body("nojson", NoFields), Body("null", NoFields), Body("array", NoFields),
     Obj(NoFields), Obj("other" :> JNum(1))}

TextValues == {JNull, JStr(""), JNum(0), JList(<<>>)} \cup {JStr(x) : x \in Texts}
TextsValues ==
    {JNull, JStr(""), JStr("a"), JNum(0), JNum(5), JDict(0), JDict(1)}
        \cup {JList(q) : q \in SeqsUpTo(Texts, MaxTexts)}
BatchSizeValues == {JNull} \cup {JNum(i) : i \in 0..MaxBatch}
PairValues == {JStr("")} \cup {JStr(x) : x \in Texts}

EmbedBodies == CommonBodies \cup {Obj("text" :> v) : v \in TextValues}
BatchBodies ==
    CommonBodies
        \cup {Obj("texts" :> v) : v \in TextsValues}
        \cup {Obj("texts" :> v @@ "batch_size" :> b) : v \in TextsValues, b \in BatchSizeValues}
SimilarityBodies ==
    CommonBodies
        \cup {Obj("text1" :> v) : v \in PairValues}
        \cup {Obj("text2" :> v) : v \in PairValues}
        \cup {Obj("text1" :> v @@ "text2" :> w) : v \in PairValues, w \in PairValues}

\* the requests of the sequential specification
Requests ==
    {Request("health", Body("null", NoFields))}
        \cup {Request("embed", b) : b \in EmbedBodies}
        \cup {Request("embed_batch", b) : b \in BatchBodies}
        \cup {Request("similarity", b) : b \in SimilarityBodies}

\* the requests of the concurrent specification
ConcRequests ==
    {Request("health", Body("null", NoFields)),
     Request("embed", Obj(NoFields)),
     Request("embed", Obj("text" :> JStr("a"))),
     Request("embed_batch", Obj("texts" :> JList(<<"a", "b">>))),
     Request("similarity", Obj("text1" :> JStr("a")))}

\* ------------------------------------------------------------------ state
VARIABLES
    mode,        \* "main": run through the entry point; "wsgi": imported by a server
    serving,     \* the server accepts requests
    exitStatus,  \* -1 while the process runs, else the status it exited with
    model,       \* the global `model`: None or the instance stored
    loadCount,   \* constructor executions that produced an instance
    th,          \* per thread: position, request, locals, response
    returned     \* the handles load_model() has returned so far

vars == <<mode, serving, exitStatus, model, loadCount, th, returned>>

MainThread == 0
Workers == 1..NThreads
Threads == {MainThread} \cup Workers

\* the statements of each handler, and of the entry point, in program order
\* with load_model() hoisted above the validation
StepsLoadFirst(ep) ==
    CASE ep = "health" -> <<"load", "respond">>
      [] ep = "main" -> <<"load", "run">>
      [] OTHER -> <<"load", "validate", "encode", "respond">>

\* the server started before the eager load
StepsRunFirst(ep) ==
    CASE ep = "health" -> <<"load", "respond">>
      [] ep = "main" -> <<"run", "load">>
      [] OTHER -> <<"validate", "load", "encode", "respond">>

\* lines 39-45, 54-69, 79-97, 107-130, 147-149
Steps(ep) ==
    CASE ep = "health" -> <<"load", "respond">>
      [] ep = "main" -> <<"load", "run">>
      [] OTHER -> <<"validate", "load", "encode", "respond">>

IdleThread ==
    [ip |-> 0, lpc |-> "none", req |-> NoReq, resp |-> NoResp, exc |-> "", m |-> None,
     tmp |-> None, emb |-> <<>>, calledLoad |-> FALSE, calledEncode |-> FALSE,
     snap |-> <<None, 0>>]

\* the statement thread t is at
At(t) ==
    LET r == th[t]
    IN IF r.ip = 0 THEN "idle"
       ELSE IF r.ip > Len(Steps(r.req.ep)) THEN "done"
       ELSE Steps(r.req.ep)[r.ip]

DoneIp(r) == Len(Steps(r.req.ep)) + 1

\* `return resp` from a handler
Returned(r, resp) == [r EXCEPT !.ip = DoneIp(r), !.lpc = "none", !.resp = resp]

\* an exception e raised at r's position: the handler's except clause answers;
\* in the entry point the except clause of line 150 ends the run
Excepted(r, e) ==
    [r EXCEPT !.ip = DoneIp(r), !.lpc = "none", !.exc = e,
              !.resp = IF r.req.ep = "main" THEN NoResp ELSE ExceptClause(r.req.ep, e)]

\* exit(1), line 152
ExitAfter(r) == IF r.req.ep = "main" /\ r.exc # "" THEN 1 ELSE exitStatus

Running == exitStatus = -1

Init ==
    /\ mode \in {"main", "wsgi"}
    /\ serving = (mode = "wsgi")
    /\ exitStatus = -1
    /\ model = None
    /\ loadCount = 0
    /\ returned = {}
    /\ th = [t \in Threads |->
                IF t = MainThread /\ mode = "main"
                THEN [IdleThread EXCEPT !.ip = 1, !.req = MainReq]
                ELSE IdleThread]

\* ---------------------------------------------------------------- actions
\* the server hands a request drawn from R to request thread t
Begin(t, R) ==
    /\ Running /\ serving
    /\ At(t) \in {"idle", "done"}
    /\ \E r \in R :
         th' = [th EXCEPT ![t] = [IdleThread EXCEPT !.ip = 1, !.req = r,
                                                    !.snap = <<model, loadCount>>]]
    /\ UNCHANGED <<mode, serving, exitStatus, model, loadCount, returned>>

\* get_json() and the field checks
DoValidate(t) ==
    /\ Running /\ At(t) = "validate"
    /\ \E g \in GetJsonOutcomes(th[t].req.body) :
         LET r == th[t]
             v == Validate(r.req.ep, g.data)
         IN th' = [th EXCEPT ![t] =
                     IF g.exc # "" THEN Excepted(r, g.exc)
                     ELSE IF v.out = "raise" THEN Excepted(r, v.msg)
                     ELSE IF v.out = "reject" THEN Returned(r, BadRequest(v.msg))
                     ELSE [r EXCEPT !.ip = @ + 1]]
    /\ UNCHANGED <<mode, serving, exitStatus, model, loadCount, returned>>

\* the check made unconditional
LoadCheckAlways(mdl) == "ctor"

\* line 30: `if model is None`
LoadCheckTarget(mdl) == IF mdl = None THEN "ctor" ELSE "ret"

LoadCheck(t) ==
    /\ Running /\ At(t) = "load" /\ th[t].lpc = "none"
    /\ th' = [th EXCEPT ![t].lpc = LoadCheckTarget(model), ![t].calledLoad = TRUE]
    /\ UNCHANGED <<mode, serving, exitStatus, model, loadCount, returned>>

\* line 32, right-hand side: SentenceTransformer(MODEL_NAME) returns an instance
LoadCtorOk(t) ==
    /\ Running /\ At(t) = "load" /\ th[t].lpc = "ctor"
    /\ loadCount' = loadCount + 1
    /\ th' = [th EXCEPT ![t].lpc = "store", ![t].tmp = loadCount + 1]
    /\ UNCHANGED <<mode, serving, exitStatus, model, returned>>

\* line 32, right-hand side: SentenceTransformer(MODEL_NAME) raises
LoadCtorFail(t) ==
    /\ Running /\ At(t) = "load" /\ th[t].lpc = "ctor"
    /\ th' = [th EXCEPT ![t] = Excepted(th[t], "ModelLoadError")]
    /\ exitStatus' = ExitAfter(th'[t])
    /\ UNCHANGED <<mode, serving, model, loadCount, returned>>

\* line 32, the assignment to the global
LoadStore(t) ==
    /\ Running /\ At(t) = "load" /\ th[t].lpc = "store"
    /\ model' = th[t].tmp
    /\ th' = [th EXCEPT ![t].lpc = "log"]
    /\ UNCHANGED <<mode, serving, exitStatus, loadCount, returned>>

\* line 33: the log line, which asks the stored model for its dimension
LoadLog(t) ==
    /\ Running /\ At(t) = "load" /\ th[t].lpc = "log"
    /\ \E d \in DimensionOutcomes :
         th' = [th EXCEPT ![t] = IF d.exc # "" THEN Excepted(th[t], d.exc)
                                 ELSE [th[t] EXCEPT !.lpc = "ret"]]
    /\ exitStatus' = ExitAfter(th'[t])
    /\ UNCHANGED <<mode, serving, model, loadCount, returned>>

\* line 34: `return model` reads the global
LoadReturn(t) ==
    /\ Running /\ At(t) = "load" /\ th[t].lpc = "ret"
    /\ th' = [th EXCEPT ![t].lpc = "none", ![t].m = model, ![t].ip = @ + 1]
    /\ returned' = returned \cup {model}
    /\ UNCHANGED <<mode, serving, exitStatus, model, loadCount>>

\* the arguments of the handler's encode call: lines 63, 90, 118
EncodeArgs(req) ==
    CASE req.ep = "embed" ->
            [texts |-> <<Get(req.body.o, "text", JStr("")).s>>, bs |-> JNum(DefaultBatchSize)]
      [] req.ep = "embed_batch" ->
            [texts |-> Get(req.body.o, "texts", JList(<<>>)).l,
             bs |-> Get(req.body.o, "batch_size", JNum(DefaultBatchSize))]
      [] req.ep = "similarity" ->
            [texts |-> <<Get(req.body.o, "text1", JStr("")).s,
                         Get(req.body.o, "text2", JStr("")).s>>,
             bs |-> JNum(DefaultBatchSize)]

\* m.encode(...)
DoEncode(t) ==
    /\ Running /\ At(t) = "encode"
    /\ \E e \in EncodeOutcomes(EncodeArgs(th[t].req).texts, EncodeArgs(th[t].req).bs) :
         LET r == [th[t] EXCEPT !.calledEncode = TRUE]
         IN th' = [th EXCEPT ![t] = IF e.exc # "" THEN Excepted(r, e.exc)
                                    ELSE [r EXCEPT !.emb = e.vecs, !.ip = @ + 1]]
    /\ UNCHANGED <<mode, serving, exitStatus, model, loadCount, returned>>

\* the success response of each handler
SuccessResponse(ep, emb, dim) ==
    CASE ep = "health" -> HealthResponse(dim)
      [] ep = "embed" -> EmbedResponse(emb)
      [] ep = "embed_batch" -> BatchResponse(emb)
      [] ep = "similarity" -> SimilarityResponse(emb)

\* return jsonify({...}); health asks the model for its dimension first
Respond(t) ==
    /\ Running /\ At(t) = "respond"
    /\ \E d \in DimensionOutcomes :
         /\ (th[t].req.ep # "health" => d.exc = "")
         /\ th' = [th EXCEPT ![t] =
                     IF d.exc # "" THEN Excepted(th[t], d.exc)
                     ELSE Returned(th[t], SuccessResponse(th[t].req.ep, th[t].emb, d.dim))]
    /\ UNCHANGED <<mode, serving, exitStatus, model, loadCount, returned>>

\* line 149: app.run(..., threaded=True)
MainRun ==
    /\ Running /\ At(MainThread) = "run" /\ ~serving
    /\ serving' = TRUE
    /\ UNCHANGED <<mode, exitStatus, model, loadCount, th, returned>>

\* a step of load_model() in thread t
LoadStep(t) ==
    \/ LoadCheck(t)
    \/ LoadCtorOk(t)
    \/ LoadCtorFail(t)
    \/ LoadStore(t)
    \/ LoadLog(t)
    \/ LoadReturn(t)

HandlerStep(t) ==
    \/ DoValidate(t)
    \/ LoadStep(t)
    \/ DoEncode(t)
    \/ Respond(t)

\* the threaded server: any request thread may run at any time
Next ==
    \/ LoadStep(MainThread)
    \/ MainRun
    \/ \E t \in Workers : Begin(t, ConcRequests)
    \/ \E t \in Workers : HandlerStep(t)

Spec == Init /\ [][Next]_vars

\* one request at a time, on request thread 1, over the full request set
NextSeq ==
    \/ LoadStep(MainThread)
    \/ MainRun
    \/ Begin(1, Requests)
    \/ HandlerStep(1)

SpecSeq == Init /\ [][NextSeq]_vars

\* the process started through its entry point (python app.py)
InitMain == Init /\ mode = "main"

SpecMain == InitMain /\ [][Next]_vars

\* ----------------------------------------------------------------- claims
Done(t) == At(t) = "done"

\* C1: concurrent first calls of load_model() on a cold global run the model
\* constructor once in total, whatever the interleaving.
C1_ConstructedOnce == loadCount <= 1

\* C2: the global model is write-once: once it holds an instance it is never
\* assigned again, and all calls of load_model() return the same instance.
C2_WriteOnce ==
    [][(model # None => model' = model) /\ Cardinality(returned') <= 1]_vars

\* C3: when load_model() raises in a request handler, the global model is
\* None after the failed call, so that the next call loads again.
C3_FailedLoadRetainsNothing ==
    [][\A t \in Workers :
          (At(t) = "load" /\ th[t].exc = "" /\ th'[t].exc # "") => model' = None]_vars

\* C4: run one at a time, once a call of load_model() has returned a handle
\* no later call constructs a model or assigns the global, the load count
\* stays at 1 and every later call returns that same handle.
C4_LaterCallsReuse ==
    [][returned # {} =>
          /\ model' = model
          /\ loadCount' = loadCount /\ loadCount = 1
          /\ returned' = returned /\ returned = {model}
          /\ \A t \in Threads : th'[t].lpc \notin {"ctor", "store"}]_vars

\* a later call: the model was already loaded when the request began, and
\* load_model() gave the handler that instance
C4_Witness ==
    /\ th[1].snap[1] # None
    /\ th[1].calledLoad /\ At(1) \in {"encode", "respond", "done"}
    /\ th[1].m = th[1].snap[1]

TextMissingOrEmpty(o) == "text" \notin DOMAIN o \/ o["text"] = JStr("")

\* C5: POST /embed with a JSON object body that has no 'text' (the empty
\* object included) or an empty 'text' is answered 400 "Field 'text' is
\* required".
C5_MissingTextRejected ==
    \A t \in Workers :
        (/\ Done(t) /\ th[t].req.ep = "embed"
         /\ th[t].req.body.k = "obj"
         /\ TextMissingOrEmpty(th[t].req.body.o))
        => /\ th[t].resp.status = 400
           /\ th[t].resp.error = "Field 'text' is required"

TextsAbsentEmptyOrScalar(o) ==
    \/ "texts" \notin DOMAIN o
    \/ o["texts"] = JList(<<>>)
    \/ o["texts"].k \in {"str", "num"}

\* C6: POST /embed/batch with a non-empty JSON object body whose 'texts' is
\* absent, an empty array or a scalar is answered 400 "Field 'texts' must be a
\* non-empty array", whatever 'batch_size' is.
C6_BadTextsRejected ==
    \A t \in Workers :
        (/\ Done(t) /\ th[t].req.ep = "embed_batch"
         /\ th[t].req.body.k = "obj" /\ DOMAIN th[t].req.body.o # {}
         /\ TextsAbsentEmptyOrScalar(th[t].req.body.o))
        => /\ th[t].resp.status = 400
           /\ th[t].resp.error = "Field 'texts' must be a non-empty array"

\* a truthy scalar 'texts' sent together with a batch_size
C6_Witness ==
    /\ Done(1) /\ th[1].req.ep = "embed_batch"
    /\ th[1].req.body.k = "obj"
    /\ DOMAIN th[1].req.body.o = {"texts", "batch_size"}
    /\ th[1].req.body.o["texts"] = JStr("a")
    /\ th[1].resp.status = 400

ModelFailures == {"ModelLoadError", "DimensionError", "EncodeError"}

\* C7: every endpoint is a failure boundary: a failure of load_model() or of
\* encode ends the handler with a structured status-500 response carrying the
\* failure's message (status "unhealthy" for health); no exception leaves the
\* handler and the process keeps running.
C7_FailureBoundary ==
    \A t \in Workers :
        th[t].exc \in ModelFailures
        => /\ Done(t)
           /\ th[t].resp.status = 500
           /\ th[t].resp.error = th[t].exc
           /\ ~th[t].resp.escaped
           /\ (th[t].req.ep = "health" <=> th[t].resp.state = "unhealthy")
           /\ Running

\* health answered after load_model() failed in it
C7_Witness ==
    /\ Done(1) /\ th[1].req.ep = "health"
    /\ th[1].exc = "ModelLoadError"
    /\ th[1].resp.status = 500

\* C8: embed_batch is all-or-nothing: for a non-empty 'texts' array the
\* response is 200 with one vector per text, in input order, and count equal
\* to the number of texts, or it is an error carrying no embeddings.
C8_AllOrNothing ==
    \A t \in Workers :
        (/\ Done(t) /\ th[t].req.ep = "embed_batch"
         /\ th[t].req.body.k = "obj"
         /\ "texts" \in DOMAIN th[t].req.body.o
         /\ th[t].req.body.o["texts"].k = "list"
         /\ th[t].req.body.o["texts"].l # <<>>)
        => LET texts == th[t].req.body.o["texts"].l
               resp == th[t].resp
           IN \/ /\ resp.status = 200
                 /\ resp.count = Len(texts)
                 /\ Len(resp.embeddings) = Len(texts)
                 /\ \A i \in 1..Len(texts) : resp.embeddings[i] = Vec(texts[i])
                 /\ resp.error = ""
              \/ /\ resp.status = 500
                 /\ resp.embeddings = <<>> /\ resp.count = 0
                 /\ resp.error # ""

\* a batch of two different texts encoded in passes of one
C8_Witness ==
    /\ Done(1) /\ th[1].req.ep = "embed_batch"
    /\ th[1].req.body.k = "obj"
    /\ DOMAIN th[1].req.body.o = {"texts", "batch_size"}
    /\ th[1].req.body.o["texts"] = JList(<<"a", "b">>)
    /\ th[1].req.body.o["batch_size"] = JNum(1)
    /\ th[1].resp.status = 200

\* C9: started through the entry point, the server accepts requests only
\* after the eager load_model() has returned; a failed load exits with status
\* 1 and no request is ever served; while a handler runs the global model is
\* set and no handler constructs or stores a model.
C9_EagerLoad ==
    /\ serving => (model # None /\ At(MainThread) = "run" /\ loadCount = 1)
    /\ \A t \in Workers :
         /\ At(t) # "idle" => (serving /\ model # None)
         /\ th[t].lpc \notin {"ctor", "store", "log"}
    /\ th[MainThread].exc # "" => (exitStatus = 1 /\ ~serving)
    /\ ~Running => (exitStatus = 1 /\ \A t \in Workers : At(t) = "idle")

\* a handler got its handle from load_model() and is about to encode
C9_Witness ==
    /\ mode = "main"
    /\ \E t \in Workers : At(t) = "encode" /\ th[t].calledLoad /\ th[t].m = model

\* C10: a request to embed, embed_batch or similarity answered with 400 has
\* called neither load_model() nor encode, and the global model and the load
\* count are what they were when the request began.
C10_ValidationFirst ==
    \A t \in Workers :
        (Done(t) /\ th[t].resp.status = 400)
        => /\ ~th[t].calledLoad
           /\ ~th[t].calledEncode
           /\ th[t].snap = <<model, loadCount>>

\* a rejected similarity request on a cold registry, which stays cold
C10_Witness ==
    /\ Done(1) /\ th[1].req.ep = "similarity"
    /\ th[1].resp.status = 400
    /\ th[1].req.body.k = "obj" /\ DOMAIN th[1].req.body.o = {"text1"}
    /\ model = None /\ loadCount = 0

====
